---- MODULE Spec2Model ----
(***************************************************************************)
(* UnixSocketPort (core/drivers/unix_socket.cc): a single-client packet    *)
(* port over a UNIX domain SOCK_SEQPACKET socket.  Three activities share  *)
(* client_fd_, old_client_fd_ and recv_skip_cnt_ without locks: the        *)
(* detached accept thread, RecvPackets and SendPackets.  The process' file *)
(* descriptor table and the peers are modelled explicitly so that open /   *)
(* closed descriptor numbers and the connection behind a number are state. *)
(***************************************************************************)
EXTENDS Integers, Sequences, FiniteSets

\* ---------------------------------------------------------------- bounds
MaxThreads == 3      \* accept threads that may ever be launched
MaxConnects == 3     \* peer connections that may ever be made
MaxData == 1         \* datagrams a peer may have queued towards the port
MaxCnt == 2          \* largest cnt passed to RecvPackets
MaxBatch == 2        \* largest cnt passed to SendPackets (Spec)
MaxTxBatch == 5      \* largest cnt passed to SendPackets (SpecTx)
MaxQueues == 2       \* largest configured queue count per direction
MaxEintr == 1        \* interrupted recv() calls within one RecvPackets call
MaxAllocs == 4       \* buffers the allocator hands out within one RecvPackets call
MaxSegs == 3         \* longest segment chain of a packet (SpecSeg)
MaxSegLen == 1       \* most bytes in one segment (SpecSeg)
MaxSegBatch == 1     \* largest cnt passed to SendPackets (SpecSeg)

\* ------------------------------------------------------ program constants
RECV_SKIP_TICKS == 256
kNotConnectedFd == -1
ListenBacklog == 1

\* Descriptor numbers the process may hand out (0..2 are the standard
\* streams); one for the listening socket and one per accepted connection.
FdNums == 3..(3 + MaxThreads)
Conns == 1..MaxConnects
Threads == 1..MaxThreads

VARIABLES
  phase,           \* "constructed" | "failed" | "running" | "closing" | "torndown"
  num_queues,      \* [inc, out]: configured queue counts (Port::num_queues)
  init_result,     \* "none" | "ok" | "EINVAL" | "socket" | "bind" | "listen"
  listen_fd_,      \* UnixSocketPort::listen_fd_
  client_fd_,      \* UnixSocketPort::client_fd_
  old_client_fd_,  \* UnixSocketPort::old_client_fd_
  recv_skip_cnt_,  \* UnixSocketPort::recv_skip_cnt_
  fdtab,           \* descriptor table: number -> -1 closed, 0 the listening
                   \* socket, c >= 1 the server end of connection c
  athr,            \* accept threads: [pc, ret, conn] per launched thread
  nthr,            \* number of accept threads launched so far
  peer,            \* peer end of each connection: "unused" | "up" | "down"
  inq,             \* datagrams queued towards the port, per connection
  backlog,         \* connections waiting in the listen queue
  nconn,           \* connections made so far
  rx,              \* the RecvPackets call in progress / its last result
  tx,              \* the SendPackets call in progress / its last result
  ever_client,     \* history: descriptor numbers ever stored in client_fd_
  bad_close,       \* history: a close() was issued on a number not open
  listen_closes,   \* history: close() calls issued on the listening socket
  idle_skips,      \* history: throttled calls since the last empty poll (-1: none)
  gap,             \* history: idle_skips seen by the latest read attempt (-1: none)
  fresh_accept     \* history: an accept thread finished and no RecvPackets
                   \* call has been made since

vars == <<phase, num_queues, init_result, listen_fd_, client_fd_, old_client_fd_,
          recv_skip_cnt_, fdtab, athr, nthr, peer, inq, backlog, nconn, rx, tx,
          ever_client, bad_close, listen_closes, idle_skips, gap, fresh_accept>>

portVars == <<phase, num_queues, init_result, listen_fd_>>
slotVars == <<client_fd_, old_client_fd_>>
peerVars == <<peer, inq, backlog, nconn>>
histVars == <<ever_client, bad_close, listen_closes, idle_skips, gap, fresh_accept>>

\* ------------------------------------------------------ descriptor table
IsOpen(tab, fd) == fd \in FdNums /\ tab[fd] # -1

FreeFds(tab) == {fd \in FdNums : tab[fd] = -1}

\* The kernel hands out the lowest unused descriptor number.
LowestFree(tab) == CHOOSE fd \in FreeFds(tab) : \A g \in FreeFds(tab) : fd <= g

\* close(fd): releases the number if it is open, fails with EBADF otherwise.
CloseFd(tab, fd) == IF IsOpen(tab, fd) THEN [tab EXCEPT ![fd] = -1] ELSE tab

\* dup2(oldfd, newfd): EBADF (no effect) if oldfd is not open or newfd is not
\* a descriptor number; otherwise newfd silently drops what it referred to
\* and refers to oldfd's socket.
Dup2(tab, oldfd, newfd) ==
  IF IsOpen(tab, oldfd) /\ newfd \in FdNums
  THEN [tab EXCEPT ![newfd] = tab[oldfd]]
  ELSE tab

\* Accept threads that have been launched and have not finished.
Outstanding == {t \in Threads : athr[t].pc \notin {"none", "done"}}

NoThread == [pc |-> "none", ret |-> -1, conn |-> 0]

\* std::thread accept_thread(AcceptThreadMain, this); accept_thread.detach();
LaunchAccept(a, n) == [a EXCEPT ![n + 1] = [pc |-> "accept", ret |-> -1, conn |-> 0]]

\* pkts: the buffers stored in the caller's array, [buf, conn] each; allocs,
\* freed, out, eintr, ends: the buffers allocated and freed, the outcome of
\* the latest recv(), and the interrupted and call-ending reads of the call
\* in progress; ret, last: what the latest call returned and did.
IdleRx == [pc |-> "idle", cnt |-> 0, pkts |-> <<>>, why |-> "none", last |-> "none",
           allocs |-> 0, freed |-> <<>>, out |-> "none", eintr |-> 0, ends |-> 0,
           ret |-> 0]
IdleTx == [pc |-> "idle", cnt |-> 0, pkts |-> <<>>, i |-> 0, sent |-> 0,
           log |-> <<>>, wire |-> <<>>, released |-> <<>>, ret |-> 0]

\* ------------------------------------------------------------------ Init
\* The port object after construction, before Init() is called.
Init ==
  /\ phase = "constructed"
  /\ num_queues \in [inc : 0..MaxQueues, out : 0..MaxQueues]
  /\ init_result = "none"
  /\ listen_fd_ = kNotConnectedFd
  /\ client_fd_ = kNotConnectedFd
  /\ old_client_fd_ = kNotConnectedFd
  /\ recv_skip_cnt_ = 0
  /\ fdtab = [fd \in FdNums |-> -1]
  /\ athr = [t \in Threads |-> NoThread]
  /\ nthr = 0
  /\ peer = [c \in Conns |-> "unused"]
  /\ inq = [c \in Conns |-> 0]
  /\ backlog = <<>>
  /\ nconn = 0
  /\ rx = IdleRx
  /\ tx = IdleTx
  /\ ever_client = {}
  /\ bad_close = FALSE
  /\ listen_closes = 0
  /\ idle_skips = -1
  /\ gap = -1
  /\ fresh_accept = FALSE

\* ------------------------------------------------- UnixSocketPort::Init
\* Mutant: both directions must be over the limit.
QueueCountBoth(num_txq, num_rxq) == num_txq > 1 /\ num_rxq > 1

\* if (num_txq > 1 || num_rxq > 1) return CommandFailure(EINVAL, ...)
QueueCountInvalid(num_txq, num_rxq) == num_txq > 1 \/ num_rxq > 1

\* Mutant: the result of listen() is not checked.
InitFailsBindOnly(fail) == fail = "bind"

\* ret = bind(...); if (ret < 0) return ...;  ret = listen(...); if (ret < 0) return ...;
InitFails(fail) == fail \in {"bind", "listen"}

\* Init() runs before any other thread exists.  fail is the system call
\* that fails, if any.
InitPort(fail) ==
  /\ phase = "constructed"
  /\ client_fd_' = kNotConnectedFd
  /\ old_client_fd_' = kNotConnectedFd
  /\ IF QueueCountInvalid(num_queues.out, num_queues.inc)
     THEN /\ init_result' = "EINVAL"
          /\ phase' = "failed"
          /\ UNCHANGED <<listen_fd_, fdtab, athr, nthr>>
     ELSE IF fail = "socket"
     THEN /\ init_result' = "socket"
          /\ phase' = "failed"
          /\ listen_fd_' = -1
          /\ UNCHANGED <<fdtab, athr, nthr>>
     ELSE /\ listen_fd_' = LowestFree(fdtab)
          /\ fdtab' = [fdtab EXCEPT ![LowestFree(fdtab)] = 0]
          /\ init_result' = IF fail \in {"bind", "listen"} THEN fail ELSE "ok"
          /\ IF InitFails(fail)
             THEN /\ phase' = "failed"
                  /\ UNCHANGED <<athr, nthr>>
             ELSE /\ phase' = "running"
                  /\ athr' = LaunchAccept(athr, nthr)
                  /\ nthr' = nthr + 1
  /\ UNCHANGED <<num_queues, recv_skip_cnt_, peerVars, rx, tx, histVars>>

\* ----------------------------------------------------------------- peers
\* A peer connects to the listening socket (listen(listen_fd_, 1)).
PeerConnect ==
  /\ phase = "running"
  /\ nconn < MaxConnects
  /\ Len(backlog) < ListenBacklog
  /\ nconn' = nconn + 1
  /\ peer' = [peer EXCEPT ![nconn + 1] = "up"]
  /\ backlog' = Append(backlog, nconn + 1)
  /\ UNCHANGED <<portVars, slotVars, recv_skip_cnt_, fdtab, athr, nthr, inq,
                 rx, tx, histVars>>

\* A connected peer sends one datagram.
PeerSend(c) ==
  /\ phase = "running"
  /\ peer[c] = "up"
  /\ inq[c] < MaxData
  /\ inq' = [inq EXCEPT ![c] = inq[c] + 1]
  /\ UNCHANGED <<portVars, slotVars, recv_skip_cnt_, fdtab, athr, nthr, peer,
                 backlog, nconn, rx, tx, histVars>>

\* A connected peer closes its end.
PeerClose(c) ==
  /\ phase = "running"
  /\ peer[c] = "up"
  /\ peer' = [peer EXCEPT ![c] = "down"]
  /\ UNCHANGED <<portVars, slotVars, recv_skip_cnt_, fdtab, athr, nthr, inq,
                 backlog, nconn, rx, tx, histVars>>

\* --------------------------------------- UnixSocketPort::AcceptNewClient
\* ret = accept4(listen_fd_, ...): blocks (retrying on every error) until a
\* connection is waiting on the listening socket.
AcceptStep(t) ==
  /\ athr[t].pc = "accept"
  /\ IsOpen(fdtab, listen_fd_) /\ fdtab[listen_fd_] = 0
  /\ backlog # <<>>
  /\ FreeFds(fdtab) # {}
  /\ fdtab' = [fdtab EXCEPT ![LowestFree(fdtab)] = Head(backlog)]
  /\ athr' = [athr EXCEPT ![t] = [pc |-> "reset", ret |-> LowestFree(fdtab),
                                  conn |-> Head(backlog)]]
  /\ backlog' = Tail(backlog)
  /\ UNCHANGED <<portVars, slotVars, recv_skip_cnt_, nthr, peer, inq, nconn,
                 rx, tx, histVars>>

\* recv_skip_cnt_ = 0;
ResetSkipStep(t) ==
  /\ athr[t].pc = "reset"
  /\ recv_skip_cnt_' = 0
  /\ athr' = [athr EXCEPT ![t].pc = "install"]
  /\ UNCHANGED <<portVars, slotVars, fdtab, nthr, peerVars, rx, tx, histVars>>

\* Mutant: every accepted descriptor is stored as it is.
ReconnectingNever(old) == FALSE

\* if (old_client_fd_ != kNotConnectedFd)
Reconnecting(old) == old # kNotConnectedFd

\* The descriptor number dup2 is asked to replace on a reconnect.
ReuseTarget == client_fd_

\* if (old_client_fd_ != kNotConnectedFd) dup2(ret, client_fd_); ...
\* else client_fd_ = ret;
InstallStep(t) ==
  /\ athr[t].pc = "install"
  /\ IF Reconnecting(old_client_fd_)
     THEN /\ fdtab' = Dup2(fdtab, athr[t].ret, ReuseTarget)
          /\ athr' = [athr EXCEPT ![t].pc = "close"]
          /\ UNCHANGED <<client_fd_, ever_client, fresh_accept>>
     ELSE /\ client_fd_' = athr[t].ret
          /\ ever_client' = ever_client \cup {athr[t].ret}
          /\ athr' = [athr EXCEPT ![t].pc = "done"]
          /\ fresh_accept' = TRUE
          /\ UNCHANGED fdtab
  /\ UNCHANGED <<portVars, old_client_fd_, recv_skip_cnt_, nthr, peerVars, rx, tx,
                 bad_close, listen_closes, idle_skips, gap>>

\* close(ret); after the dup2 of a reconnect.
CloseRetStep(t) ==
  /\ athr[t].pc = "close"
  /\ fdtab' = CloseFd(fdtab, athr[t].ret)
  /\ bad_close' = (bad_close \/ ~IsOpen(fdtab, athr[t].ret))
  /\ listen_closes' = listen_closes + (IF athr[t].ret = listen_fd_ THEN 1 ELSE 0)
  /\ athr' = [athr EXCEPT ![t].pc = "done"]
  /\ fresh_accept' = TRUE
  /\ UNCHANGED <<portVars, slotVars, recv_skip_cnt_, nthr, peerVars, rx, tx,
                 ever_client, idle_skips, gap>>

\* --------------------------------------- UnixSocketPort::CloseConnection
\* Mutant: the closure transition closes the descriptor at once.
CloseConnectionEager ==
  /\ old_client_fd_' = client_fd_
  /\ client_fd_' = kNotConnectedFd
  /\ fdtab' = CloseFd(fdtab, client_fd_)
  /\ athr' = LaunchAccept(athr, nthr)
  /\ nthr' = nthr + 1

\* old_client_fd_ = client_fd_; client_fd_ = kNotConnectedFd; and a new
\* detached accept thread is launched.  The descriptor is not closed.
CloseConnection ==
  /\ old_client_fd_' = client_fd_
  /\ client_fd_' = kNotConnectedFd
  /\ fdtab' = fdtab
  /\ athr' = LaunchAccept(athr, nthr)
  /\ nthr' = nthr + 1

\* ----------------------------------------- UnixSocketPort::RecvPackets
\* Mutant: the not-connected check is missing.
NotConnectedNever(fd) == FALSE

\* if (client_fd_ == kNotConnectedFd) return 0;
NotConnected(fd) == fd = kNotConnectedFd

\* Mutant: the countdown stops one tick early.
ThrottledOffByOne(c) == c > 1

\* if (recv_skip_cnt_) { recv_skip_cnt_--; return 0; }
Throttled(c) == c # 0

\* What recv(fd, ...) on the non-blocking descriptor can return.
RecvOutcomes(fd) ==
  IF ~IsOpen(fdtab, fd) THEN {"EBADF"}
  ELSE IF fdtab[fd] = 0 THEN {"error"}
  ELSE {"EINTR"} \cup
       (IF inq[fdtab[fd]] > 0 THEN {"data", "empty"}
        ELSE IF peer[fdtab[fd]] = "up" THEN {"EAGAIN"}
        ELSE {"zero", "error"})

\* The value recv() returns: the datagram's length ("empty": a datagram of
\* length 0, "zero": end of file), or -1 with errno set.
Ret(out) == IF out = "data" THEN 1 ELSE IF out \in {"empty", "zero"} THEN 0 ELSE -1

\* Mutant: a read of length 0 is taken for a packet.
GotDataOrZero(out) == Ret(out) >= 0

\* if (ret > 0)
GotData(out) == Ret(out) > 0

\* if (ret < 0) { if (errno == EAGAIN || errno == EWOULDBLOCK) break;
WouldBlock(out) == Ret(out) < 0 /\ out = "EAGAIN"

\* Mutant: the interrupted-call check is missing.
InterruptedNever(out) == FALSE

\* if (ret < 0) { ... if (errno == EINTR) continue; }
Interrupted(out) == Ret(out) < 0 /\ out = "EINTR"

\* Mutant: the buffer is not returned to the allocator.
FreeBufNot(freed, buf) == freed

\* bess::Packet::Free(pkt);
FreeBuf(freed, buf) == Append(freed, buf)

\* Mutant: a would-block read goes round the loop again.
AfterWouldBlockRetry(r) == [r EXCEPT !.why = "EAGAIN", !.ends = r.ends + 1]

\* break; on a would-block read
AfterWouldBlock(r) == [r EXCEPT !.pc = "tail", !.why = "EAGAIN", !.ends = r.ends + 1]

\* The datagram recv() took off the socket's queue, if any.
Consume(q, fd, out) ==
  IF out \in {"data", "empty"} THEN [q EXCEPT ![fdtab[fd]] = q[fdtab[fd]] - 1] ELSE q

\* Entry of RecvPackets(qid, pkts, cnt): the not-connected and throttle checks.
RecvStart(cnt) ==
  /\ phase = "running"
  /\ rx.pc = "idle"
  /\ IF NotConnected(client_fd_)
     THEN /\ rx' = [IdleRx EXCEPT !.last = "notconn"]
          /\ idle_skips' = -1
          /\ UNCHANGED <<recv_skip_cnt_, gap>>
     ELSE IF Throttled(recv_skip_cnt_)
     THEN /\ recv_skip_cnt_' = recv_skip_cnt_ - 1
          /\ rx' = [IdleRx EXCEPT !.last = "skip"]
          /\ idle_skips' = IF idle_skips >= 0 THEN idle_skips + 1 ELSE -1
          /\ UNCHANGED gap
     ELSE /\ rx' = [IdleRx EXCEPT !.pc = "loop", !.cnt = cnt, !.last = "read"]
          /\ gap' = idle_skips
          /\ idle_skips' = -1
          /\ UNCHANGED recv_skip_cnt_
  /\ fresh_accept' = FALSE
  /\ UNCHANGED <<portVars, slotVars, fdtab, athr, nthr, peerVars, tx,
                 ever_client, bad_close, listen_closes>>

\* One pass of  while (received < cnt) { Alloc; recv; ... }.
RecvIter ==
  /\ rx.pc = "loop"
  /\ IF Len(rx.pkts) >= rx.cnt
     THEN /\ rx' = [rx EXCEPT !.pc = "tail", !.why = "full"]
          /\ UNCHANGED <<slotVars, fdtab, athr, nthr, inq>>
     ELSE \E alloc_ok \in {a \in BOOLEAN : a => rx.allocs < MaxAllocs},
             out \in {o \in RecvOutcomes(client_fd_) :
                        o = "EINTR" => rx.eintr < MaxEintr} :
            LET buf == rx.allocs + 1
                r == [rx EXCEPT !.allocs = buf, !.out = out]
            IN
            IF ~alloc_ok
            THEN /\ rx' = [rx EXCEPT !.pc = "tail", !.why = "nomem"]
                 /\ UNCHANGED <<slotVars, fdtab, athr, nthr, inq>>
            ELSE IF GotData(out)
            THEN /\ rx' = [r EXCEPT !.pkts = Append(rx.pkts,
                                        [buf |-> buf, conn |-> fdtab[client_fd_]])]
                 /\ inq' = Consume(inq, client_fd_, out)
                 /\ UNCHANGED <<slotVars, fdtab, athr, nthr>>
            ELSE IF WouldBlock(out)
            THEN /\ rx' = AfterWouldBlock([r EXCEPT !.freed = FreeBuf(rx.freed, buf)])
                 /\ UNCHANGED <<slotVars, fdtab, athr, nthr, inq>>
            ELSE IF Interrupted(out)
            THEN /\ rx' = [r EXCEPT !.freed = FreeBuf(rx.freed, buf),
                                    !.eintr = rx.eintr + 1]
                 /\ UNCHANGED <<slotVars, fdtab, athr, nthr, inq>>
            ELSE /\ nthr < MaxThreads
                 /\ CloseConnection
                 /\ rx' = [r EXCEPT !.freed = FreeBuf(rx.freed, buf), !.pc = "tail",
                                    !.why = "closed", !.ends = rx.ends + 1]
                 /\ inq' = Consume(inq, client_fd_, out)
  /\ UNCHANGED <<portVars, recv_skip_cnt_, peer, backlog, nconn, tx, histVars>>

\* if (received == 0) recv_skip_cnt_ = RECV_SKIP_TICKS;  return received;
RecvTail ==
  /\ rx.pc = "tail"
  /\ IF Len(rx.pkts) = 0
     THEN recv_skip_cnt_' = RECV_SKIP_TICKS
     ELSE UNCHANGED recv_skip_cnt_
  /\ idle_skips' = IF Len(rx.pkts) = 0 /\ rx.why = "EAGAIN" THEN 0 ELSE -1
  /\ rx' = [IdleRx EXCEPT !.last = "read", !.ret = Len(rx.pkts)]
  /\ UNCHANGED <<portVars, slotVars, fdtab, athr, nthr, peerVars, tx,
                 ever_client, bad_close, listen_closes, gap, fresh_accept>>

\* ----------------------------------------- UnixSocketPort::SendPackets
\* Whether sendmsg(fd, &msg, 0) can succeed (TRUE) or fail (FALSE).
SendOutcomes(fd) ==
  IF ~IsOpen(fdtab, fd) THEN {FALSE}
  ELSE IF fdtab[fd] = 0 THEN {FALSE}
  ELSE IF peer[fdtab[fd]] = "up" THEN {TRUE, FALSE}
  ELSE {FALSE}

\* A packet is its chain of segments, head first; a segment is its bytes.
Bytes == {0, 1}
SeqsUpTo(S, n) == UNION {[1..k -> S] : k \in 0..n}
Segments == SeqsUpTo(Bytes, MaxSegLen)
Packets == SeqsUpTo(Segments, MaxSegs) \ {<<>>}

\* A batch of cnt one-segment packets.
PlainBatch(cnt) == [k \in 1..cnt |-> <<<<0>>>>]

\* bess::Packet accessors used by the scatter loop.
nb_segs(pkt) == Len(pkt)
head_data(pkt) == pkt[1]
head_len(pkt) == Len(pkt[1])
next(pkt) == Tail(pkt)

RECURSIVE FillIov(_, _, _, _)
\* Mutant: the loop forgets pkt = pkt->next() and lists the head nb_segs times.
FillIovNoAdvance(iov, pkt, j, nb) ==
  [k \in 1..nb |-> [iov_base |-> head_data(pkt), iov_len |-> head_len(pkt)]]

\* for (j = 0; j < nb_segs; j++) { iov[j] = {head_data, head_len}; pkt = next; }
FillIov(iov, pkt, j, nb) ==
  IF j >= nb THEN iov
  ELSE FillIov(Append(iov, [iov_base |-> head_data(pkt), iov_len |-> head_len(pkt)]),
               next(pkt), j + 1, nb)

\* The one datagram sendmsg() gathers from msg_iov[0 .. msg_iovlen-1]: the
\* first iov_len bytes at each iov_base, in index order.
RECURSIVE Gather(_, _)
Gather(iov, n) ==
  IF n = 0 THEN <<>>
  ELSE Gather(iov, n - 1) \o SubSeq(iov[n].iov_base, 1, iov[n].iov_len)

SendStart(pkts) ==
  /\ phase = "running"
  /\ tx.pc = "idle"
  /\ tx' = [IdleTx EXCEPT !.pc = "loop", !.cnt = Len(pkts), !.pkts = pkts]
  /\ UNCHANGED <<portVars, slotVars, recv_skip_cnt_, fdtab, athr, nthr, peerVars,
                 rx, histVars>>

\* ret = sendmsg(...) succeeded: sent++; and on to the next packet.
AfterSendOk(t) == [t EXCEPT !.i = t.i + 1, !.sent = t.sent + 1]

\* Mutant: a failed send skips the packet and goes on with the rest.
AfterSendFailSkip(t) == [t EXCEPT !.i = t.i + 1]

\* if (ret < 0) break;
AfterSendFail(t) == [t EXCEPT !.pc = "free"]

\* Mutant: a failed send runs the closure transition.
SendFailCloses == nthr < MaxThreads /\ CloseConnection

\* What a failed send does to the connection state: nothing.
SendFailEffect == UNCHANGED <<slotVars, fdtab, athr, nthr>>

\* One pass of  for (i = 0; i < cnt; i++) { ...; sendmsg(client_fd_, ...) }.
SendStep ==
  /\ tx.pc = "loop"
  /\ IF tx.i >= tx.cnt
     THEN /\ tx' = [tx EXCEPT !.pc = "free"]
          /\ UNCHANGED <<slotVars, fdtab, athr, nthr>>
     ELSE \E ok \in SendOutcomes(client_fd_) :
            LET pkt == tx.pkts[tx.i + 1]
                iov == FillIov(<<>>, pkt, 0, nb_segs(pkt))
                e == [pkt |-> tx.i + 1, fd |-> client_fd_,
                      open |-> IsOpen(fdtab, client_fd_),
                      old |-> old_client_fd_, ok |-> ok]
                w == [msg_iov |-> iov, msg_iovlen |-> nb_segs(pkt),
                      delivered |-> IF ok THEN <<Gather(iov, nb_segs(pkt))>>
                                    ELSE <<>>]
                t == [tx EXCEPT !.log = Append(tx.log, e),
                                !.wire = Append(tx.wire, w)]
            IN  IF ok
                THEN /\ tx' = AfterSendOk(t)
                     /\ UNCHANGED <<slotVars, fdtab, athr, nthr>>
                ELSE /\ tx' = AfterSendFail(t)
                     /\ SendFailEffect
  /\ UNCHANGED <<portVars, recv_skip_cnt_, peerVars, rx, histVars>>

\* if (sent) bess::Packet::Free(pkts, sent);  return sent;
SendFree ==
  /\ tx.pc = "free"
  /\ tx' = [tx EXCEPT !.pc = "idle", !.ret = tx.sent,
                      !.released = [k \in 1..tx.sent |-> k],
                      !.pkts = <<>>, !.wire = <<>>]
  /\ UNCHANGED <<portVars, slotVars, recv_skip_cnt_, fdtab, athr, nthr, peerVars,
                 rx, histVars>>

\* ------------------------------------------- UnixSocketPort::DeInit
\* DeInit() is called once, on a port that Init() started, when no
\* RecvPackets / SendPackets call is in progress; the detached accept
\* thread is not joined and keeps running.
\* close(listen_fd_);
DeInitListen ==
  /\ phase = "running"
  /\ rx.pc = "idle" /\ tx.pc = "idle"
  /\ phase' = "closing"
  /\ fdtab' = CloseFd(fdtab, listen_fd_)
  /\ bad_close' = (bad_close \/ ~IsOpen(fdtab, listen_fd_))
  /\ listen_closes' = listen_closes + 1
  /\ UNCHANGED <<num_queues, init_result, listen_fd_, slotVars, recv_skip_cnt_,
                 athr, nthr, peerVars, rx, tx, ever_client, idle_skips, gap,
                 fresh_accept>>

\* Mutant: the client descriptor is closed without the check.
ClientLiveAlways(fd) == TRUE

\* if (client_fd_ >= 0)
ClientLive(fd) == fd >= 0

\* if (client_fd_ >= 0) close(client_fd_);
DeInitClient ==
  /\ phase = "closing"
  /\ phase' = "torndown"
  /\ IF ClientLive(client_fd_)
     THEN /\ fdtab' = CloseFd(fdtab, client_fd_)
          /\ bad_close' = (bad_close \/ ~IsOpen(fdtab, client_fd_))
          /\ listen_closes' = listen_closes + (IF client_fd_ = listen_fd_ THEN 1 ELSE 0)
     ELSE UNCHANGED <<fdtab, bad_close, listen_closes>>
  /\ UNCHANGED <<num_queues, init_result, listen_fd_, slotVars, recv_skip_cnt_,
                 athr, nthr, peerVars, rx, tx, ever_client, idle_skips, gap,
                 fresh_accept>>

\* ------------------------------------------------------- specifications
Next ==
  \/ \E fail \in {"none", "socket", "bind", "listen"} : InitPort(fail)
  \/ PeerConnect
  \/ \E c \in Conns : PeerSend(c)
  \/ \E c \in Conns : PeerClose(c)
  \/ \E t \in Threads : AcceptStep(t)
  \/ \E t \in Threads : ResetSkipStep(t)
  \/ \E t \in Threads : InstallStep(t)
  \/ \E t \in Threads : CloseRetStep(t)
  \/ \E cnt \in 1..MaxCnt : RecvStart(cnt)
  \/ RecvIter
  \/ RecvTail
  \/ \E cnt \in 1..MaxBatch : SendStart(PlainBatch(cnt))
  \/ SendStep
  \/ SendFree
  \/ DeInitListen
  \/ DeInitClient

Spec == Init /\ [][Next]_vars

\* A port with its first client connected and both paths idle: the state
\* Spec reaches by Init(), one peer connecting and the accept thread
\* finishing.
Connected ==
  /\ phase = "running"
  /\ num_queues \in [inc : 0..1, out : 0..1]
  /\ init_result = "ok"
  /\ listen_fd_ = 3
  /\ client_fd_ = 4
  /\ old_client_fd_ = kNotConnectedFd
  /\ recv_skip_cnt_ = 0
  /\ fdtab = [fd \in FdNums |-> IF fd = 3 THEN 0 ELSE IF fd = 4 THEN 1 ELSE -1]
  /\ athr = [t \in Threads |->
               IF t = 1 THEN [pc |-> "done", ret |-> 4, conn |-> 1] ELSE NoThread]
  /\ nthr = 1
  /\ peer = [c \in Conns |-> IF c = 1 THEN "up" ELSE "unused"]
  /\ inq = [c \in Conns |-> 0]
  /\ backlog = <<>>
  /\ nconn = 1
  /\ rx = IdleRx
  /\ tx = IdleTx
  /\ ever_client = {4}
  /\ bad_close = FALSE
  /\ listen_closes = 0
  /\ idle_skips = -1
  /\ gap = -1
  /\ fresh_accept = FALSE

\* SendPackets alone on a connected port, with batches of up to MaxTxBatch.
NextTx ==
  \/ \E cnt \in 1..MaxTxBatch : SendStart(PlainBatch(cnt))
  \/ SendStep
  \/ SendFree
  \/ \E c \in Conns : PeerClose(c)

SpecTx == Connected /\ [][NextTx]_vars

\* SendPackets alone on a connected port, with batches of up to MaxSegBatch
\* packets of up to MaxSegs segments each.
NextSeg ==
  \/ \E pkts \in SeqsUpTo(Packets, MaxSegBatch) \ {<<>>} : SendStart(pkts)
  \/ SendStep
  \/ SendFree
  \/ \E c \in Conns : PeerClose(c)

SpecSeg == Connected /\ [][NextSeg]_vars

\* RecvPackets alone on a connected port whose peer may send and close.
NextRx ==
  \/ \E cnt \in 1..MaxCnt : RecvStart(cnt)
  \/ RecvIter
  \/ RecvTail
  \/ \E c \in Conns : PeerSend(c)
  \/ \E c \in Conns : PeerClose(c)

SpecRx == Connected /\ [][NextRx]_vars

\* The connection lifecycle without the transmit path, which writes none
\* of the port's fields: Init(), peers, accept threads, RecvPackets, DeInit().
NextConn ==
  \/ \E fail \in {"none", "socket", "bind", "listen"} : InitPort(fail)
  \/ PeerConnect
  \/ \E c \in Conns : PeerSend(c)
  \/ \E c \in Conns : PeerClose(c)
  \/ \E t \in Threads : AcceptStep(t)
  \/ \E t \in Threads : ResetSkipStep(t)
  \/ \E t \in Threads : InstallStep(t)
  \/ \E t \in Threads : CloseRetStep(t)
  \/ \E cnt \in 1..MaxCnt : RecvStart(cnt)
  \/ RecvIter
  \/ RecvTail
  \/ DeInitListen
  \/ DeInitClient

SpecConn == Init /\ [][NextConn]_vars

\* The same, with the thread that calls RecvPackets scheduled until the call
\* returns; the accept threads and the peers may stall for ever.
SpecConnFair ==
  /\ Init
  /\ [][NextConn]_vars
  /\ WF_vars(RecvIter)
  /\ WF_vars(RecvTail)

\* ------------------------------------------------------------------ claims
\* The latest accept thread was launched by a closure and has finished.
ReconnectDone(t) ==
  /\ t >= 2
  /\ nthr = t
  /\ athr[t].pc = "done"
  /\ phase = "running"

\* C1: once a closure has been detected and the accept thread it launched
\* has accepted a new peer and finished, the client slot holds the
\* descriptor number it held before the closure, open and referring to the
\* new connection.
C1_ReconnectInstallsClient ==
  \A t \in Threads :
    ReconnectDone(t) =>
      /\ client_fd_ # kNotConnectedFd
      /\ client_fd_ = old_client_fd_
      /\ IsOpen(fdtab, client_fd_)
      /\ fdtab[client_fd_] = athr[t].conn

\* C2: while an initialized port that is not being torn down has no client,
\* an accept thread is outstanding.
C2_AcceptPendingWhileDisconnected ==
  (phase = "running" /\ client_fd_ = kNotConnectedFd) => Outstanding # {}

\* C3: at most one accept thread is outstanding in every reachable state.
C3_NoDoubleAccept == Cardinality(Outstanding) <= 1

\* C3 witness: a closure relaunched the accept thread after the first one
\* finished, while a transmit call is in progress.
C3_Witness ==
  /\ athr[1].pc = "done"
  /\ athr[2].pc = "accept"
  /\ tx.pc = "loop"
  /\ Cardinality(Outstanding) = 1

\* C4: a returned transmit call attempted its sends in input order, stopped
\* at the first failed send, returned the number k of sends before it
\* (cnt if none failed) and released exactly packets 1..k, each once.
C4_TransmitPrefix ==
  (tx.pc = "idle" /\ tx.cnt > 0) =>
    /\ tx.ret \in 0..tx.cnt
    /\ \A j \in 1..Len(tx.log) : tx.log[j].pkt = j
    /\ \A j \in 1..tx.ret : j <= Len(tx.log) /\ tx.log[j].ok
    /\ IF tx.ret < tx.cnt
       THEN Len(tx.log) = tx.ret + 1 /\ ~tx.log[tx.ret + 1].ok
       ELSE Len(tx.log) = tx.cnt
    /\ tx.released = [j \in 1..tx.ret |-> j]

\* C4 witness: a batch of 5 whose 3rd send failed returned 2.
C4_Witness ==
  /\ tx.pc = "idle"
  /\ tx.cnt = 5
  /\ tx.ret = 2
  /\ Len(tx.log) = 3
  /\ ~tx.log[3].ok
  /\ tx.released = <<1, 2>>

FailedSendOnClient ==
  /\ tx.pc = "loop"
  /\ tx'.pc = "free"
  /\ Len(tx'.log) = Len(tx.log) + 1
  /\ IsOpen(fdtab, client_fd_)

RetiredOpen == old_client_fd_ # kNotConnectedFd => IsOpen(fdtab, old_client_fd_)

\* C7 as stated: every value transmit passed to sendmsg once a closure had
\* been detected was an open descriptor number, and the retired number
\* stays open.
C7_SendFdOpenOriginal ==
  /\ \A j \in 1..Len(tx.log) :
       tx.log[j].old # kNotConnectedFd => tx.log[j].open
  /\ RetiredOpen

\* C7 amended: every value transmit passed to sendmsg was either the
\* not-connected sentinel (the send fails) or an open descriptor number,
\* and the retired number stays open from closure detection onward.
C7_SendFdOpenOrSentinel ==
  /\ \A j \in 1..Len(tx.log) :
       tx.log[j].fd = kNotConnectedFd \/ tx.log[j].open
  /\ RetiredOpen

\* C7 witness: one transmit call sent on the client's descriptor, a closure
\* was detected, and its next send read the sentinel.
C7_Witness ==
  /\ Len(tx.log) = 2
  /\ tx.log[1].open /\ tx.log[1].ok
  /\ tx.log[2].old = tx.log[1].fd
  /\ tx.log[2].fd = kNotConnectedFd
  /\ IsOpen(fdtab, old_client_fd_)

\* C8: the client slot has held at most 2 distinct descriptor numbers.
C8_DescriptorStability == Cardinality(ever_client) <= 2

\* C8 witness: two peers were accepted, with a closure between them.
C8_Witness ==
  /\ athr[1].pc = "done"
  /\ athr[2].pc = "done"
  /\ athr[2].conn = 2
  /\ Cardinality(ever_client) = 1

\* C9: Init() with more than one queue in a direction fails with EINVAL,
\* creates no socket and launches no accept thread.
C9_SingleQueueEnforced ==
  (phase # "constructed" /\ (num_queues.inc > 1 \/ num_queues.out > 1)) =>
    /\ init_result = "EINVAL"
    /\ phase = "failed"
    /\ \A fd \in FdNums : ~IsOpen(fdtab, fd)
    /\ nthr = 0
    /\ Outstanding = {}

\* C9 witness: Init() has refused two transmit queues.
C9_Witness ==
  /\ phase = "failed"
  /\ num_queues.out = 2
  /\ num_queues.inc = 1
  /\ init_result = "EINVAL"

\* C10: no close() is issued on a number that is not open, and the
\* listening descriptor is closed once, by DeInit() and by nothing else.
C10_NoDoubleClose ==
  /\ ~bad_close
  /\ listen_closes = IF phase \in {"closing", "torndown"} THEN 1 ELSE 0

\* C10 witness: teardown after a closure and a reconnect attempt.
C10_Witness ==
  /\ phase = "torndown"
  /\ athr[2].pc = "done"
  /\ old_client_fd_ # kNotConnectedFd
  /\ listen_closes = 1

\* A RecvPackets call is made while the client slot is not-connected.
NotConnectedCall ==
  /\ rx.pc = "idle"
  /\ rx' # rx
  /\ client_fd_ = kNotConnectedFd

\* C11: a receive call made while the client slot is not-connected returns
\* zero packets at once: no buffer is allocated, no read is issued, and the
\* poll-skip budget, the client slot and the retiring slot are unchanged.
C11_ReceiveNotConnected ==
  [][NotConnectedCall =>
       /\ rx'.pc = "idle"
       /\ rx'.ret = 0
       /\ rx'.pkts = <<>>
       /\ rx'.allocs = 0
       /\ rx'.out = "none"
       /\ UNCHANGED <<recv_skip_cnt_, client_fd_, old_client_fd_>>]_vars

\* C11 witness: a receive call returned on the not-connected check after a
\* closure, with the budget the closure left.
C11_Witness ==
  /\ rx.pc = "idle"
  /\ rx.last = "notconn"
  /\ client_fd_ = kNotConnectedFd
  /\ old_client_fd_ # kNotConnectedFd
  /\ recv_skip_cnt_ = RECV_SKIP_TICKS

\* The bytes of a packet's segments, concatenated in chain order.
RECURSIVE ConcatSegs(_)
ConcatSegs(p) == IF p = <<>> THEN <<>> ELSE Head(p) \o ConcatSegs(Tail(p))

\* C12: every packet a transmit call reaches, of s >= 1 segments, gets exactly
\* one send; its scatter list has s entries, entry k being the data and the
\* length of the k-th segment of the chain; a send that succeeds delivers to
\* the peer one message, the concatenation of the segments' bytes in order,
\* and a send that fails delivers nothing.
C12_TransmitAtomicity ==
  /\ tx.pc = "loop" => Len(tx.wire) = tx.i
  /\ tx.pc = "free" => (Len(tx.wire) = tx.cnt \/ ~tx.log[Len(tx.log)].ok)
  /\ tx.pc \in {"loop", "free"} => Len(tx.wire) = Len(tx.log)
  /\ \A j \in 1..Len(tx.wire) :
       LET w == tx.wire[j]
           p == tx.pkts[j]
       IN  /\ tx.log[j].pkt = j
           /\ w.msg_iovlen = Len(p)
           /\ Len(w.msg_iov) = Len(p)
           /\ \A k \in 1..Len(p) :
                /\ w.msg_iov[k].iov_base = p[k]
                /\ w.msg_iov[k].iov_len = Len(p[k])
           /\ w.delivered = IF tx.log[j].ok THEN <<ConcatSegs(p)>> ELSE <<>>

\* C12 witness: the 3-segment packet <<0>>, <<1>>, <<1>> was sent with one
\* send of three entries and the peer got the one message <<0, 1, 1>>.
C12_Witness ==
  /\ tx.pc = "free"
  /\ tx.pkts = << <<<<0>>, <<1>>, <<1>>>> >>
  /\ tx.sent = 1
  /\ Len(tx.wire) = 1
  /\ tx.wire[1].msg_iovlen = 3
  /\ tx.wire[1].delivered = << <<0, 1, 1>> >>

\* C13: when Init() has failed, whatever the reason, no accept thread has
\* been launched and the client and retiring slots are not-connected.
C13_FailedInitStartsNothing ==
  init_result \notin {"none", "ok"} =>
    /\ nthr = 0
    /\ \A t \in Threads : athr[t].pc = "none"
    /\ client_fd_ = kNotConnectedFd
    /\ old_client_fd_ = kNotConnectedFd

\* C13 witness: Init() failed in listen(), after the socket was created.
C13_Witness ==
  /\ init_result = "listen"
  /\ phase = "failed"
  /\ IsOpen(fdtab, listen_fd_)

\* C14: once an accept thread has finished and until the next receive call
\* is made, the poll-skip budget is zero whenever no receive call is in
\* progress.
C14_BudgetZeroAfterAccept ==
  (fresh_accept /\ rx.pc = "idle") => recv_skip_cnt_ = 0

\* A recv() is issued in this step of RecvPackets.
ReadStep == rx.pc = "loop" /\ rx'.allocs = rx.allocs + 1

\* The buffer of this step's read is returned to the allocator.
BufferReleased == rx'.freed = Append(rx.freed, rx'.allocs)

\* The closure transition, with the descriptor left open.
ClosureTransition ==
  /\ old_client_fd_' = client_fd_
  /\ client_fd_' = kNotConnectedFd
  /\ fdtab' = fdtab
  /\ IsOpen(fdtab', old_client_fd_')
  /\ nthr' = nthr + 1
  /\ Outstanding' = Outstanding \cup {nthr + 1}
  /\ nthr + 1 \notin Outstanding

\* C15: a read that fails with an error other than would-block or
\* interrupted-call releases the buffer, ends the loop and performs the
\* closure transition without closing the descriptor, launching exactly one
\* accept thread; the packets already read are what the call returns.
C15_ReadErrorCloses ==
  [][/\ (ReadStep /\ rx'.out \in {"error", "EBADF"}) =>
          /\ BufferReleased
          /\ rx'.pc = "tail"
          /\ rx'.pkts = rx.pkts
          /\ ClosureTransition
     /\ (rx.pc = "tail" /\ rx'.pc = "idle") => rx'.ret = Len(rx.pkts)]_vars

\* C15 witness: a call read one packet, then hit a read error and closed.
C15_Witness ==
  /\ rx.pc = "tail"
  /\ rx.out = "error"
  /\ Len(rx.pkts) = 1
  /\ client_fd_ = kNotConnectedFd
  /\ IsOpen(fdtab, old_client_fd_)
  /\ athr[2].pc = "accept"

\* C16: a would-block read ends the call and an interrupted read is retried
\* without taking a result slot; both release the buffer and leave the
\* client slot, the retiring slot and the accept threads unchanged.
C16_TransientReadsKeepConnection ==
  [][(ReadStep /\ rx'.out \in {"EAGAIN", "EINTR"}) =>
       /\ BufferReleased
       /\ rx'.pkts = rx.pkts
       /\ rx'.pc = (IF rx'.out = "EAGAIN" THEN "tail" ELSE "loop")
       /\ UNCHANGED <<client_fd_, old_client_fd_, athr, nthr, fdtab>>]_vars

\* C16 witness: a call whose read was interrupted, retried, and then found
\* nothing to read.
C16_Witness ==
  /\ rx.pc = "tail"
  /\ rx.why = "EAGAIN"
  /\ rx.eintr = 1
  /\ rx.freed = <<1, 2>>
  /\ client_fd_ # kNotConnectedFd

\* Times buffer b occurs among the returned packets and the freed buffers.
Uses(b) ==
  Cardinality({k \in 1..Len(rx.pkts) : rx.pkts[k].buf = b}) +
  Cardinality({k \in 1..Len(rx.freed) : rx.freed[k] = b})

\* C17: when the loop of a receive call is over, it returns at most cnt
\* packets, in the order they were read, and every buffer allocated during
\* the call is either one returned packet or was released exactly once.
C17_ReceiveBufferAccounting ==
  rx.pc = "tail" =>
    /\ Len(rx.pkts) \in 0..rx.cnt
    /\ \A j, k \in 1..Len(rx.pkts) : j < k => rx.pkts[j].buf < rx.pkts[k].buf
    /\ \A b \in 1..rx.allocs : Uses(b) = 1
    /\ \A k \in 1..Len(rx.pkts) : rx.pkts[k].buf \in 1..rx.allocs
    /\ \A k \in 1..Len(rx.freed) : rx.freed[k] \in 1..rx.allocs

\* C17 witness: an interrupted read, a packet, and a would-block read.
C17_Witness ==
  /\ rx.pc = "tail"
  /\ rx.allocs = 3
  /\ Len(rx.pkts) = 1
  /\ rx.pkts[1].buf = 2
  /\ rx.freed = <<1, 3>>

\* C18: after DeInit() of a port that went through a detected closure, with
\* no accept thread holding a freshly accepted descriptor, no descriptor
\* the port opened is still open.
C18_TeardownReleasesAll ==
  (/\ phase = "torndown"
   /\ old_client_fd_ # kNotConnectedFd
   /\ \A t \in Threads : athr[t].pc \in {"none", "accept", "done"}) =>
    \A fd \in FdNums : ~IsOpen(fdtab, fd)

\* C19: a receive call makes at most cnt successful reads and at most one
\* read that ends in would-block or closure, and it returns, whatever the
\* accept threads do, once interrupted reads stop recurring.
C19_ReceiveTerminates ==
  /\ [](rx.pc # "idle" => Len(rx.pkts) <= rx.cnt /\ rx.ends <= 1)
  /\ ((rx.pc # "idle") ~> (rx.pc = "idle"))

\* C19 witness: a call that was interrupted once, read a packet and ended
\* on a closure whose accept thread has not run.
C19_Witness ==
  /\ rx.pc = "tail"
  /\ rx.eintr = 1
  /\ Len(rx.pkts) = 1
  /\ rx.ends = 1
  /\ rx.why = "closed"
  /\ athr[2].pc = "accept"

\* C20: a read that returns zero bytes is not appended to the result; the
\* buffer is released and the closure transition is performed.
C20_ZeroReadCloses ==
  [][(ReadStep /\ Ret(rx'.out) = 0) =>
       /\ rx'.pkts = rx.pkts
       /\ BufferReleased
       /\ rx'.pc = "tail"
       /\ ClosureTransition]_vars

\* C20 witness: the peer shut down and the read returned zero bytes.
C20_Witness ==
  /\ rx.pc = "tail"
  /\ rx.out = "zero"
  /\ rx.why = "closed"
  /\ rx.pkts = <<>>
  /\ client_fd_ = kNotConnectedFd

====
